---- MODULE Spec2Model ----
(***************************************************************************)
(* Model of dump/src/reader/compat/v1_to_v2.rs: the adapter that exposes a *)
(* v1 dump reader through the read contract of a v2 reader                 *)
(* (CompatV1ToV2, CompatIndexV1ToV2) and its field/record translators      *)
(* (the From impls for settings, ranking rules, update status, update      *)
(* type and tri-state update state).                                       *)
(***************************************************************************)
EXTENDS Integers, Sequences, FiniteSets, TLC

VARIABLES
    from,       \* CompatV1ToV2.from: the wrapped v1::V1Reader (the dump on disk)
    mode,       \* which borrow of the adapter is live: "idle", "indexes", "tasks"
    uuids,      \* the Vec returned by the last index_uuid() call, if any
    prevUuids,  \* the Vec returned by the index_uuid() call before that one, if any
    cursor,     \* position of the live iterator in the source: [index, task]
    finished,   \* the live iterator has returned None
    yielded,    \* the items the live iterator has yielded so far
    origin,     \* history: for each yielded item, the source position it came from
    last,       \* the call the tracked items belong to: "none", "indexes",
                \* "indexes failed" (the call itself returned Err) or "tasks"
    log,        \* the warnings emitted since the live call or iterator began
    input,      \* the value handed to a translator (translator specification)
    output      \* the value the translator returned

vars == <<from, mode, uuids, prevUuids, cursor, finished, yielded, origin,
          last, log, input, output>>

(***************************************************************************)
(* Bounds of the model.                                                    *)
(***************************************************************************)
MaxIndexes == 2
MaxTasks == 2
MaxRules == 3
WordBits == 16

(***************************************************************************)
(* Option<T>, Result<T>, and v1::settings::UpdateState<T>.                 *)
(***************************************************************************)
None == [some |-> FALSE]
Some(v) == [some |-> TRUE, v |-> v]

Ok(v) == [ok |-> TRUE, v |-> v]
Err(e) == [ok |-> FALSE, err |-> e]

Update(v) == [state |-> "Update", value |-> v]
Clear == [state |-> "Clear"]
Nothing == [state |-> "Nothing"]

Range(s) == {s[k] : k \in 1..Len(s)}

\* `let v = e; F(v)`: e is evaluated once and F applied to its value
Bind(e, F(_)) == CHOOSE r \in {F(v) : v \in {e}} : TRUE

(***************************************************************************)
(* Integer widths.  usize and u64 are both modelled WordBits wide (a       *)
(* 64-bit target); u64::MAX is the largest value of that width.            *)
(***************************************************************************)
U64_MAX == 2^WordBits - 1
AsU64(n) == n % (U64_MAX + 1)

(***************************************************************************)
(* uuid::Uuid::from_u128(index as u128): the 16 bytes of the number, most  *)
(* significant first.                                                      *)
(***************************************************************************)
RECURSIVE BigEndian(_, _)
BigEndian(v, n) == IF n = 0 THEN <<>> ELSE Append(BigEndian(v \div 256, n - 1), v % 256)

UuidFromU128(v) == BigEndian(v, 16)

(***************************************************************************)
(* Warnings: a log::warn! call is recorded as its format string and the    *)
(* values interpolated into it.                                            *)
(***************************************************************************)
Warn(fmt, args) == [fmt |-> fmt, args |-> args]

WarnEnqueued(update_id) ==
    <<Warn("Cannot import task {} (importing enqueued tasks from v1 dumps is unsupported)",
           <<update_id>>),
      Warn("Task will be skipped in the queue of imported tasks.", <<>>)>>

WarnCustoms ==
    <<Warn("Ignoring task with type 'Customs' that is no longer supported", <<>>)>>

WarnWordsPosition ==
    <<Warn("Removing the 'WordsPosition' ranking rule that is no longer supported, please check the resulting ranking rules of your indexes",
           <<>>)>>

(***************************************************************************)
(* v1::settings::RankingRule, v2::settings::Criterion and their string     *)
(* forms.                                                                  *)
(***************************************************************************)
Fields == {"price"}

PlainRules == {"Typo", "Words", "Proximity", "Attribute", "WordsPosition", "Exactness"}

RankingRules ==
    {[rule |-> r] : r \in PlainRules}
        \cup {[rule |-> d, field |-> f] : d \in {"Asc", "Desc"}, f \in Fields}

\* v1::settings::RankingRule::from_str
RankingRuleFromStr(s) ==
    CASE s = "typo" -> Ok([rule |-> "Typo"])
      [] s = "words" -> Ok([rule |-> "Words"])
      [] s = "proximity" -> Ok([rule |-> "Proximity"])
      [] s = "attribute" -> Ok([rule |-> "Attribute"])
      [] s = "wordsPosition" -> Ok([rule |-> "WordsPosition"])
      [] s = "exactness" -> Ok([rule |-> "Exactness"])
      [] s = "asc(price)" -> Ok([rule |-> "Asc", field |-> "price"])
      [] s = "desc(price)" -> Ok([rule |-> "Desc", field |-> "price"])
      [] OTHER -> Err("()")

\* v2::settings::Criterion's Display (ToString::to_string)
CriterionToString(c) ==
    CASE c.criterion = "Typo" -> "typo"
      [] c.criterion = "Words" -> "words"
      [] c.criterion = "Proximity" -> "proximity"
      [] c.criterion = "Attribute" -> "attribute"
      [] c.criterion = "Exactness" -> "exactness"
      [] c.criterion = "Asc" /\ c.field = "price" -> "asc(price)"
      [] c.criterion = "Desc" /\ c.field = "price" -> "desc(price)"

(***************************************************************************)
(* impl From<v1::settings::RankingRule> for Option<v2::settings::Criterion>*)
(* A translator returns its value together with the warnings it emitted.   *)
(***************************************************************************)
Ret(result, warnings) == [result |-> result, log |-> warnings]

\* variant: WordsPosition is translated to Words instead of being dropped
MutRankingRuleKeepsWordsPosition(source) ==
    IF source.rule \in {"Asc", "Desc"}
    THEN Ret(Some([criterion |-> source.rule, field |-> source.field]), <<>>)
    ELSE IF source.rule = "WordsPosition"
    THEN Ret(Some([criterion |-> "Words"]), <<>>)
    ELSE Ret(Some([criterion |-> source.rule]), <<>>)

FromRankingRule(source) ==
    CASE source.rule = "Typo" -> Ret(Some([criterion |-> "Typo"]), <<>>)
      [] source.rule = "Words" -> Ret(Some([criterion |-> "Words"]), <<>>)
      [] source.rule = "Proximity" -> Ret(Some([criterion |-> "Proximity"]), <<>>)
      [] source.rule = "Attribute" -> Ret(Some([criterion |-> "Attribute"]), <<>>)
      [] source.rule = "WordsPosition" -> Ret(None, WarnWordsPosition)
      [] source.rule = "Exactness" -> Ret(Some([criterion |-> "Exactness"]), <<>>)
      [] source.rule = "Asc" ->
            Ret(Some([criterion |-> "Asc", field |-> source.field]), <<>>)
      [] source.rule = "Desc" ->
            Ret(Some([criterion |-> "Desc", field |-> source.field]), <<>>)

(***************************************************************************)
(* impl<T> From<v1::settings::UpdateState<T>> for Option<Option<T>>        *)
(***************************************************************************)
\* variant: Clear collapses into the no-change marker
MutUpdateStateClearIsNothing(source) ==
    CASE source.state = "Update" -> Some(Some(source.value))
      [] source.state = "Clear" -> None
      [] source.state = "Nothing" -> None

FromUpdateState(source) ==
    CASE source.state = "Update" -> Some(Some(source.value))
      [] source.state = "Clear" -> Some(None)
      [] source.state = "Nothing" -> None

\* .map(|opt| opt.map(|set| set.into_iter().collect())): a set collected
\* into a set
MapCollectSet(oo) ==
    IF ~oo.some THEN None
    ELSE IF ~oo.v.some THEN Some(None)
    ELSE Some(Some(oo.v.v))

\* .map(|opt| opt.map(|vec| vec.into_iter().collect())): a Vec collected
\* into a set
MapCollectVec(oo) ==
    IF ~oo.some THEN None
    ELSE IF ~oo.v.some THEN Some(None)
    ELSE Some(Some(Range(oo.v.v)))

(***************************************************************************)
(* impl From<v1::settings::Settings> for v2::Settings<v2::Unchecked>       *)
(* (the settings stored with an index).  Ranking rules are strings here:   *)
(* each is parsed, translated and printed back; a string that does not     *)
(* parse is kept as it is.                                                 *)
(***************************************************************************)
RECURSIVE FilterMapRuleStrings(_)
FilterMapRuleStrings(ranking_rules) ==
    IF ranking_rules = <<>> THEN Ret(<<>>, <<>>)
    ELSE LET ranking_rule == Head(ranking_rules)
             parsed == RankingRuleFromStr(ranking_rule)
             criterion == FromRankingRule(parsed.v)
             one == IF parsed.ok
                    THEN Ret(IF criterion.result.some
                             THEN Some(CriterionToString(criterion.result.v))
                             ELSE None,
                             criterion.log)
                    ELSE Ret(Some(ranking_rule), <<>>)
             rest == FilterMapRuleStrings(Tail(ranking_rules))
         IN  Ret((IF one.result.some THEN <<one.result.v>> ELSE <<>>) \o rest.result,
                 one.log \o rest.log)

FromSettings(source) ==
    LET displayed_attributes == MapCollectSet(source.displayed_attributes)
        attributes_for_faceting ==
            MapCollectVec(source.attributes_for_faceting)
        rules == IF source.ranking_rules.some /\ source.ranking_rules.v.some
                 THEN FilterMapRuleStrings(source.ranking_rules.v.v)
                 ELSE Ret(<<>>, <<>>)
        ranking_rules == IF ~source.ranking_rules.some THEN None
                         ELSE IF ~source.ranking_rules.v.some THEN Some(None)
                         ELSE Some(Some(rules.result))
    IN  Ret([displayed_attributes |-> displayed_attributes,
             searchable_attributes |-> source.searchable_attributes,
             filterable_attributes |-> attributes_for_faceting,
             ranking_rules |-> ranking_rules,
             stop_words |-> source.stop_words,
             synonyms |-> source.synonyms,
             distinct_attribute |-> source.distinct_attribute,
             _kind |-> "Unchecked"],
            rules.log)

(***************************************************************************)
(* impl From<v1::settings::SettingsUpdate> for v2::Settings<v2::Unchecked> *)
(* (the settings carried by a settings-update task).  Ranking rules are    *)
(* typed here; the filtering happens inside the Update case only.          *)
(***************************************************************************)
RECURSIVE FilterMapRules(_)
FilterMapRules(ranking_rules) ==
    IF ranking_rules = <<>> THEN Ret(<<>>, <<>>)
    ELSE LET criterion == FromRankingRule(Head(ranking_rules))
             rest == FilterMapRules(Tail(ranking_rules))
         IN  Ret((IF criterion.result.some
                  THEN <<CriterionToString(criterion.result.v)>>
                  ELSE <<>>) \o rest.result,
                 criterion.log \o rest.log)

FromSettingsUpdate(source) ==
    LET displayed_attributes == FromUpdateState(source.displayed_attributes)
        attributes_for_faceting == FromUpdateState(source.attributes_for_faceting)
        typed_rules == FromUpdateState(source.ranking_rules)
        rules == IF typed_rules.some /\ typed_rules.v.some
                 THEN FilterMapRules(typed_rules.v.v)
                 ELSE Ret(<<>>, <<>>)
        ranking_rules == IF ~typed_rules.some THEN None
                         ELSE IF ~typed_rules.v.some THEN Some(None)
                         ELSE Some(Some(rules.result))
    IN  Ret([displayed_attributes |-> MapCollectSet(displayed_attributes),
             searchable_attributes |-> FromUpdateState(source.searchable_attributes),
             filterable_attributes |->
                 MapCollectVec(attributes_for_faceting),
             ranking_rules |-> ranking_rules,
             stop_words |-> FromUpdateState(source.stop_words),
             synonyms |-> FromUpdateState(source.synonyms),
             distinct_attribute |-> FromUpdateState(source.distinct_attribute),
             _kind |-> "Unchecked"],
            rules.log)

(***************************************************************************)
(* impl From<v1::update::UpdateType> for Option<v2::updates::UpdateMeta>   *)
(***************************************************************************)
\* variant: the Customs kind is translated instead of being dropped
MutUpdateTypeKeepsCustoms(source) ==
    IF source.type = "Customs"
    THEN Ret(Some([meta |-> "ClearDocuments"]), <<>>)
    ELSE IF source.type = "Settings"
    THEN LET settings == FromSettingsUpdate(source.settings)
         IN  Ret(Some([meta |-> "Settings", settings |-> settings.result]), settings.log)
    ELSE IF source.type = "ClearAll"
    THEN Ret(Some([meta |-> "ClearDocuments"]), <<>>)
    ELSE IF source.type = "DocumentsDeletion"
    THEN Ret(Some([meta |-> "DeleteDocuments", ids |-> <<>>]), <<>>)
    ELSE Ret(Some([meta |-> "DocumentsAddition",
                   method |-> IF source.type = "DocumentsAddition"
                              THEN "ReplaceDocuments" ELSE "UpdateDocuments",
                   format |-> "Json", primary_key |-> None]), <<>>)

FromUpdateType(source) ==
    CASE source.type = "ClearAll" -> Ret(Some([meta |-> "ClearDocuments"]), <<>>)
      [] source.type = "Customs" -> Ret(None, WarnCustoms)
      [] source.type = "DocumentsAddition" ->
            Ret(Some([meta |-> "DocumentsAddition", method |-> "ReplaceDocuments",
                      format |-> "Json", primary_key |-> None]), <<>>)
      [] source.type = "DocumentsPartial" ->
            Ret(Some([meta |-> "DocumentsAddition", method |-> "UpdateDocuments",
                      format |-> "Json", primary_key |-> None]), <<>>)
      [] source.type = "DocumentsDeletion" ->
            Ret(Some([meta |-> "DeleteDocuments", ids |-> <<>>]), <<>>)
      [] source.type = "Settings" ->
            LET settings == FromSettingsUpdate(source.settings)
            IN  Ret(Some([meta |-> "Settings", settings |-> settings.result]),
                    settings.log)

(***************************************************************************)
(* impl From<v1::update::UpdateStatus> for Option<v2::updates::UpdateStatus>*)
(* Struct fields are evaluated in the order they are written: in the       *)
(* Processed arm `success` is computed before `meta`, whose `?` may then   *)
(* return None from the whole conversion.                                  *)
(***************************************************************************)
UnwrapOrDefault(opt) == IF opt.some THEN opt.v ELSE ""

\* variant: clear-all reports zero deleted documents
MutSuccessClearAllCountsZero(update_type) ==
    CASE update_type.type = "ClearAll" -> [result |-> "DocumentDeletion", deleted |-> 0]
      [] update_type.type \in {"DocumentsAddition", "DocumentsPartial"} ->
            [result |-> "DocumentsAddition", nb_documents |-> update_type.number]
      [] update_type.type = "DocumentsDeletion" ->
            [result |-> "DocumentDeletion", deleted |-> AsU64(update_type.number)]
      [] OTHER -> [result |-> "Other"]

\* the `success:` match of the Processed arm
SuccessOf(update_type) ==
    CASE update_type.type = "ClearAll" ->
            [result |-> "DocumentDeletion", deleted |-> U64_MAX]
      [] update_type.type = "Customs" -> [result |-> "Other"]
      [] update_type.type = "DocumentsAddition" ->
            [result |-> "DocumentsAddition", nb_documents |-> update_type.number]
      [] update_type.type = "DocumentsPartial" ->
            [result |-> "DocumentsAddition", nb_documents |-> update_type.number]
      [] update_type.type = "DocumentsDeletion" ->
            [result |-> "DocumentDeletion", deleted |-> AsU64(update_type.number)]
      [] update_type.type = "Settings" -> [result |-> "Other"]

\* the synthesized v2::updates::Processing { from: v2::updates::Enqueued { .. }, .. };
\* times are whole seconds and `duration` is a non-negative number of seconds
ProcessingOf(content, meta) ==
    [from |-> [update_id |-> content.update_id,
               meta |-> meta,
               enqueued_at |-> content.enqueued_at,
               content |-> None],
     started_processing_at |-> content.processed_at - content.duration]

\* the Failed arm, once `meta` is known
FailedOf(content, meta) ==
    IF ~meta.result.some THEN Ret(None, meta.log)
    ELSE Ret(Some([status |-> "Failed",
                   from |-> ProcessingOf(content, meta.result.v),
                   error |-> [code |-> "StatusCode::default()",
                              message |-> UnwrapOrDefault(content.error),
                              error_code |-> UnwrapOrDefault(content.error_code),
                              error_type |-> UnwrapOrDefault(content.error_type),
                              error_link |-> UnwrapOrDefault(content.error_link)],
                   failed_at |-> content.processed_at]),
             meta.log)

\* the Processed arm, once `success` and then `meta` are known
ProcessedOf(content, success, meta) ==
    IF ~meta.result.some THEN Ret(None, meta.log)
    ELSE Ret(Some([status |-> "Processed",
                   success |-> success,
                   processed_at |-> content.processed_at,
                   from |-> ProcessingOf(content, meta.result.v)]),
             meta.log)

\* variant: an Enqueued task is dropped without a warning
MutUpdateStatusSilentEnqueued(source) ==
    CASE source.status = "Enqueued" -> Ret(None, <<>>)
      [] source.status = "Failed" ->
            Bind(FromUpdateType(source.content.update_type),
                 LAMBDA meta : FailedOf(source.content, meta))
      [] source.status = "Processed" ->
            Bind(FromUpdateType(source.content.update_type),
                 LAMBDA meta : ProcessedOf(source.content,
                                           SuccessOf(source.content.update_type), meta))

FromUpdateStatus(source) ==
    CASE source.status = "Enqueued" -> Ret(None, WarnEnqueued(source.content.update_id))
      [] source.status = "Failed" ->
            Bind(FromUpdateType(source.content.update_type),
                 LAMBDA meta : FailedOf(source.content, meta))
      [] source.status = "Processed" ->
            Bind(FromUpdateType(source.content.update_type),
                 LAMBDA meta : ProcessedOf(source.content,
                                           SuccessOf(source.content.update_type), meta))

(***************************************************************************)
(* The wrapped v1 reader.  `from` holds the dump's index listing; each     *)
(* listed index either opens, giving its task log (each record read        *)
(* either decodes to a v1 UpdateStatus or is an error), or fails to open.  *)
(*   from.index_uuid()  lists the indexes, in listing order;               *)
(*   from.indexes()     fails as a whole, or gives one Result per listed   *)
(*                      index, in listing order;                           *)
(*   index_reader.tasks() gives the index's task log in file order.        *)
(***************************************************************************)
V1IndexUuid(reader) ==
    [k \in 1..Len(reader.indexes) |-> [uid |-> reader.indexes[k].uid, uuid |-> "nil"]]

V1Indexes(reader) ==
    IF reader.indexes_err THEN Err("cannot read the index listing")
    ELSE Ok([k \in 1..Len(reader.indexes) |->
                IF reader.indexes[k].opens
                THEN Ok([uid |-> reader.indexes[k].uid, tasks |-> reader.indexes[k].tasks])
                ELSE Err(<<"cannot open index", reader.indexes[k].uid>>)])

V1Tasks(index_reader) == index_reader.tasks

(***************************************************************************)
(* CompatV1ToV2::index_uuid                                                *)
(***************************************************************************)
\* variant: positions are counted from one
MutIndexUuidCountsFromOne(reader) ==
    LET listed == V1IndexUuid(reader)
    IN  [k \in 1..Len(listed) |->
            [uid |-> listed[k].uid, uuid |-> UuidFromU128(k)]]

IndexUuid(reader) ==
    LET listed == V1IndexUuid(reader)
    IN  [k \in 1..Len(listed) |->
            [uid |-> listed[k].uid, uuid |-> UuidFromU128(k - 1)]]

(***************************************************************************)
(* CompatV1ToV2::indexes: the closure mapped over from.indexes()           *)
(***************************************************************************)
\* variant: an index that failed to open is yielded as an empty reader
MutWrapIndexHidesError(index_reader) ==
    Ok([from |-> IF index_reader.ok THEN index_reader.v ELSE [uid |-> "", tasks |-> <<>>]])

WrapIndex(index_reader) ==
    IF index_reader.ok THEN Ok([from |-> index_reader.v]) ELSE Err(index_reader.err)

(***************************************************************************)
(* CompatV1ToV2::tasks: one pull (next()) on the boxed iterator.           *)
(* `index` is the number of outer items taken from indexes.enumerate()     *)
(* (the live inner iterator belongs to index `index`, whose enumerate      *)
(* position is index - 1); `task` is the number of items already taken     *)
(* from that inner iterator.  A pull runs until an item is yielded or the  *)
(* outer iterator is exhausted: tasks that translate to None are skipped   *)
(* inside the same pull, their warnings emitted on the way.                *)
(***************************************************************************)
\* indexes.enumerate(): the position is counted over all items of the
\* listing, the ones that failed to open included
\* variant: only the indexes that opened are counted
MutEnumerateOpenedOnly(indexes, k) == Cardinality({m \in 1..(k - 1) : indexes[m].ok})

EnumeratePosition(indexes, k) == k - 1

\* uuid::Uuid::from_u128(index as u128) in the filter_map closure
TaskUuid(position) == UuidFromU128(position)

\* the body of the filter_map closure
\* variant: a task that translates to None is yielded all the same
MutFilterMapTaskKeepsDropped(position, task) ==
    IF ~task.ok THEN Ret(Some(Err(task.err)), <<>>)
    ELSE LET update == FromUpdateStatus(task.v)
         IN  Ret(Some(Ok(<<[uuid |-> TaskUuid(position),
                            update |-> IF update.result.some THEN update.result.v
                                       ELSE [status |-> "Enqueued"]],
                           None>>)),
                 update.log)

FilterMapTask(position, task) ==
    IF ~task.ok THEN Ret(Some(Err(task.err)), <<>>)
    ELSE LET update == FromUpdateStatus(task.v)
         IN  IF update.result.some
             THEN Ret(Some(Ok(<<[uuid |-> TaskUuid(position), update |-> update.result.v],
                                None>>)),
                      update.log)
             ELSE Ret(None, update.log)

Pulled(item, at, cur, warnings) ==
    [item |-> item, at |-> at, cursor |-> cur, log |-> warnings]

RECURSIVE PullFrom(_, _, _)
PullFrom(indexes, cur, warnings) ==
        IF ~indexes.ok
        THEN \* std::iter::once(Err(err))
             IF cur.task = 0
             THEN Pulled(Some(Err(indexes.err)), <<0, 0>>, [index |-> 0, task |-> 1], warnings)
             ELSE Pulled(None, <<0, 0>>, cur, warnings)
        ELSE IF cur.index = 0
        THEN IF Len(indexes.v) = 0
             THEN Pulled(None, <<0, 0>>, cur, warnings)
             ELSE PullFrom(indexes, [index |-> 1, task |-> 0], warnings)
        ELSE LET index_reader == indexes.v[cur.index]
                 exhausted == IF index_reader.ok
                              THEN cur.task = Len(V1Tasks(index_reader.v))
                              ELSE cur.task = 1
                 next == [index |-> cur.index, task |-> cur.task + 1]
             IN  IF exhausted
                 THEN IF cur.index = Len(indexes.v)
                      THEN Pulled(None, <<0, 0>>, cur, warnings)
                      ELSE PullFrom(indexes, [index |-> cur.index + 1, task |-> 0], warnings)
                 ELSE IF ~index_reader.ok
                 THEN Pulled(Some(Err(index_reader.err)), <<cur.index, 0>>, next, warnings)
                 ELSE Bind(FilterMapTask(EnumeratePosition(indexes.v, cur.index),
                                         V1Tasks(index_reader.v)[cur.task + 1]),
                           LAMBDA got :
                             IF got.result.some
                             THEN Pulled(got.result, <<cur.index, cur.task + 1>>, next,
                                         warnings \o got.log)
                             ELSE Bind(warnings \o got.log,
                                       LAMBDA emitted : PullFrom(indexes, next, emitted)))

Reversed(seq) == [k \in 1..Len(seq) |-> seq[Len(seq) + 1 - k]]

\* variant: each task log is read newest record first
MutPullTaskNewestFirst(reader, cur, warnings) ==
    LET indexes == V1Indexes(reader)
    IN  PullFrom(IF indexes.ok
                 THEN Ok([k \in 1..Len(indexes.v) |->
                             IF indexes.v[k].ok
                             THEN Ok([uid |-> indexes.v[k].v.uid,
                                      tasks |-> Reversed(indexes.v[k].v.tasks)])
                             ELSE indexes.v[k]])
                 ELSE indexes,
                 cur, warnings)

\* `self.from.indexes()` is called once, when tasks() builds the iterator
PullTask(reader, cur, warnings) == PullFrom(V1Indexes(reader), cur, warnings)

(***************************************************************************)
(* The dumps the adapter is run on.  A task record is described by its     *)
(* status and update type; its update_id is its position in the log.       *)
(***************************************************************************)
IndexNames == <<"movies", "books", "songs", "films">>

SampleSettingsUpdate ==
    [ranking_rules |-> Update(<<[rule |-> "Typo"], [rule |-> "WordsPosition"]>>),
     distinct_attribute |-> Nothing,
     searchable_attributes |-> Update(<<"a", "b">>),
     displayed_attributes |-> Clear,
     stop_words |-> Nothing,
     synonyms |-> Nothing,
     attributes_for_faceting |-> Nothing]

StreamTypes ==
    {[type |-> "DocumentsAddition", number |-> 1], [type |-> "Customs"]}

StreamShapes ==
    {[ok |-> TRUE, status |-> st, type |-> ty] :
        st \in {"Enqueued", "Processed", "Failed"}, ty \in StreamTypes}
    \cup {[ok |-> TRUE, status |-> "Processed",
           type |-> [type |-> "Settings", settings |-> SampleSettingsUpdate]]}
    \cup {[ok |-> FALSE]}

Content(shape, update_id) ==
    IF shape.status = "Enqueued"
    THEN [update_id |-> update_id, update_type |-> shape.type, enqueued_at |-> 100]
    ELSE [update_id |-> update_id, update_type |-> shape.type, enqueued_at |-> 100,
          processed_at |-> 110, duration |-> 4,
          error |-> IF shape.status = "Failed" THEN Some("boom") ELSE None,
          error_code |-> None, error_type |-> None, error_link |-> None]

TaskRecord(shape, update_id) ==
    IF shape.ok
    THEN Ok([status |-> shape.status, content |-> Content(shape, update_id)])
    ELSE Err(<<"cannot read task", update_id>>)

TaskLogs(t) ==
    UNION {{[j \in 1..n |-> TaskRecord(shapes[j], j - 1)] : shapes \in [1..n -> StreamShapes]} :
              n \in 0..t}

\* the listings of n more indexes, the first of them at position k, that hold
\* at most t task records in all
RECURSIVE Listings(_, _, _)
Listings(k, n, t) ==
    IF n = 0 THEN {<<>>}
    ELSE UNION {{<<ix>> \o rest : rest \in Listings(k + 1, n - 1, t - Len(ix.tasks))} :
                   ix \in {[uid |-> IndexNames[k], opens |-> FALSE, tasks |-> <<>>]}
                          \cup {[uid |-> IndexNames[k], opens |-> TRUE, tasks |-> l] :
                                   l \in TaskLogs(t)}}

Dumps ==
    {[indexes_err |-> FALSE, indexes |-> l] :
        l \in UNION {Listings(1, n, MaxTasks) : n \in 0..MaxIndexes}}
    \cup {[indexes_err |-> TRUE,
           indexes |-> [k \in 1..n |-> [uid |-> IndexNames[k], opens |-> TRUE, tasks |-> <<>>]]] :
             n \in 1..MaxIndexes}

\* the listings of n indexes with distinct names, each failing to open,
\* opening with an empty task log, or opening with one task in it
RECURSIVE NamedListings(_, _)
NamedListings(n, names) ==
    IF n = 0 THEN {<<>>}
    ELSE UNION {{<<ix>> \o rest : rest \in NamedListings(n - 1, names \ {ix.uid})} :
                   ix \in {[uid |-> name, opens |-> FALSE, tasks |-> <<>>] : name \in names}
                          \cup {[uid |-> name, opens |-> TRUE, tasks |-> l] :
                                   name \in names,
                                   l \in {<<>>, <<TaskRecord([ok |-> FALSE], 0)>>}}}

ListingDumps ==
    {[indexes_err |-> e, indexes |-> l] :
        e \in BOOLEAN,
        l \in UNION {NamedListings(n, Range(IndexNames)) : n \in 0..MaxIndexes}}

NoInput == [call |-> "none"]
NoOutput == [done |-> FALSE]
Start == [index |-> 0, task |-> 0]

(***************************************************************************)
(* The adapter as a state machine: Init is the adapter right after         *)
(* CompatV1ToV2::new, and each action is one call made by the importer.    *)
(***************************************************************************)
Init ==
    /\ from \in Dumps
    /\ mode = "idle"
    /\ uuids = None
    /\ prevUuids = None
    /\ cursor = Start
    /\ finished = FALSE
    /\ yielded = <<>>
    /\ origin = <<>>
    /\ last = "none"
    /\ log = <<>>
    /\ input = NoInput
    /\ output = NoOutput

\* index_uuid(&self): not callable while the &mut borrow of tasks() is live
CallIndexUuid ==
    /\ mode # "tasks"
    /\ prevUuids' = uuids
    /\ uuids' = Some(IndexUuid(from))
    /\ UNCHANGED <<from, mode, cursor, finished, yielded, origin, last, log, input, output>>

\* indexes(&self): `self.from.indexes()?` returns the error, or the lazy map
CallIndexes ==
    /\ mode = "idle"
    /\ last' = IF V1Indexes(from).ok THEN "indexes" ELSE "indexes failed"
    /\ mode' = IF V1Indexes(from).ok THEN "indexes" ELSE "idle"
    /\ cursor' = Start
    /\ finished' = FALSE
    /\ yielded' = <<>>
    /\ origin' = <<>>
    /\ log' = <<>>
    /\ UNCHANGED <<from, uuids, prevUuids, input, output>>

\* one next() on the iterator returned by indexes()
IndexesNext ==
    /\ mode = "indexes"
    /\ ~finished
    /\ LET indexes == V1Indexes(from).v
       IN  IF cursor.index = Len(indexes)
           THEN /\ finished' = TRUE
                /\ UNCHANGED <<cursor, yielded, origin>>
           ELSE /\ yielded' = Append(yielded, WrapIndex(indexes[cursor.index + 1]))
                /\ origin' = Append(origin, <<cursor.index + 1, 0>>)
                /\ cursor' = [index |-> cursor.index + 1, task |-> 0]
                /\ UNCHANGED finished
    /\ UNCHANGED <<from, mode, uuids, prevUuids, last, log, input, output>>

\* tasks(&mut self): builds the boxed iterator; nothing is read yet
CallTasks ==
    /\ mode = "idle"
    /\ mode' = "tasks"
    /\ cursor' = Start
    /\ finished' = FALSE
    /\ yielded' = <<>>
    /\ origin' = <<>>
    /\ last' = "tasks"
    /\ log' = <<>>
    /\ UNCHANGED <<from, uuids, prevUuids, input, output>>

\* one next() on the iterator returned by tasks()
TasksNext ==
    /\ mode = "tasks"
    /\ ~finished
    /\ \E pull \in {PullTask(from, cursor, <<>>)} :
           /\ cursor' = pull.cursor
           /\ log' = log \o pull.log
           /\ IF pull.item.some
              THEN /\ yielded' = Append(yielded, pull.item.v)
                   /\ origin' = Append(origin, pull.at)
                   /\ UNCHANGED finished
              ELSE /\ finished' = TRUE
                   /\ UNCHANGED <<yielded, origin>>
    /\ UNCHANGED <<from, mode, uuids, prevUuids, last, input, output>>

\* the importer stops pulling, at any point, and drops the iterator with the
\* items it got from it
DropIterator ==
    /\ mode # "idle"
    /\ mode' = "idle"
    /\ cursor' = Start
    /\ finished' = FALSE
    /\ yielded' = <<>>
    /\ origin' = <<>>
    /\ last' = "none"
    /\ log' = <<>>
    /\ UNCHANGED <<from, uuids, prevUuids, input, output>>

\* The task log: index_uuid() and tasks(), on dumps with task records.
Next ==
    \/ CallIndexUuid
    \/ CallTasks
    \/ TasksNext
    \/ DropIterator

Spec == Init /\ [][Next]_vars

\* The index listing: index_uuid() and indexes(), on dumps whose indexes are
\* named freely.
InitListing ==
    /\ from \in ListingDumps
    /\ mode = "idle"
    /\ uuids = None
    /\ prevUuids = None
    /\ cursor = Start
    /\ finished = FALSE
    /\ yielded = <<>>
    /\ origin = <<>>
    /\ last = "none"
    /\ log = <<>>
    /\ input = NoInput
    /\ output = NoOutput

NextListing ==
    \/ CallIndexUuid
    \/ CallIndexes
    \/ IndexesNext
    \/ DropIterator

SpecListing == InitListing /\ [][NextListing]_vars

(***************************************************************************)
(* The translators on their own: Init draws one source value, and the      *)
(* action applies the From impl to it, recording the value returned and    *)
(* the warnings emitted.                                                   *)
(***************************************************************************)
RuleStrings ==
    {"typo", "words", "proximity", "attribute", "wordsPosition", "exactness",
     "asc(price)", "desc(price)", "release_date"}

RuleLists == UNION {[1..n -> RankingRules] : n \in 0..MaxRules}
RuleStringLists == UNION {[1..n -> RuleStrings] : n \in 0..MaxRules}

\* The state of the k-th field other than ranking_rules: the same for all of
\* them (patterns 1 to 3), or differing from field to field (pattern 4).
Patterns == 1..4
PatternState(p, k) ==
    LET states == <<"Nothing", "Clear", "Update">>
    IN  IF p <= 3 THEN states[p] ELSE states[(k % 3) + 1]

TriState(state, value) ==
    CASE state = "Nothing" -> Nothing
      [] state = "Clear" -> Clear
      [] state = "Update" -> Update(value)

OptOpt(state, value) ==
    CASE state = "Nothing" -> None
      [] state = "Clear" -> Some(None)
      [] state = "Update" -> Some(Some(value))

SettingsUpdateOf(ranking_rules, p) ==
    [ranking_rules |-> ranking_rules,
     searchable_attributes |-> TriState(PatternState(p, 0), <<"a", "b">>),
     displayed_attributes |-> TriState(PatternState(p, 1), {"a", "b"}),
     attributes_for_faceting |-> TriState(PatternState(p, 2), <<"b", "a", "b">>),
     stop_words |-> TriState(PatternState(p, 3), {"the"}),
     synonyms |-> TriState(PatternState(p, 4), <<<<"car", "auto">>>>),
     distinct_attribute |-> TriState(PatternState(p, 5), "id")]

\* Rule lists of every length come with the mixed pattern, and the lists of
\* at most one rule with every pattern.
ShortSettingsUpdates ==
    {SettingsUpdateOf(rr, p) :
        rr \in {Nothing, Clear} \cup {Update(l) : l \in {m \in RuleLists : Len(m) <= 1}},
        p \in Patterns}

LongSettingsUpdates == {SettingsUpdateOf(Update(l), 4) : l \in RuleLists}

V1SettingsOf(ranking_rules, p) ==
    [ranking_rules |-> ranking_rules,
     searchable_attributes |-> OptOpt(PatternState(p, 0), <<"a", "b">>),
     displayed_attributes |-> OptOpt(PatternState(p, 1), {"a", "b"}),
     attributes_for_faceting |-> OptOpt(PatternState(p, 2), <<"b", "a", "b">>),
     stop_words |-> OptOpt(PatternState(p, 3), {"the"}),
     synonyms |-> OptOpt(PatternState(p, 4), <<<<"car", "auto">>>>),
     distinct_attribute |-> OptOpt(PatternState(p, 5), "id")]

V1Settings ==
    {V1SettingsOf(rr, p) :
        rr \in {None, Some(None)}
                \cup {Some(Some(l)) : l \in {m \in RuleStringLists : Len(m) <= 1}},
        p \in Patterns}
    \cup {V1SettingsOf(Some(Some(l)), 4) : l \in RuleStringLists}

Numbers == {0, 1, U64_MAX}

PlainUpdateTypes ==
    {[type |-> "ClearAll"], [type |-> "Customs"]}
    \cup {[type |-> t, number |-> n] :
            t \in {"DocumentsAddition", "DocumentsPartial", "DocumentsDeletion"},
            n \in Numbers}

SettingsType(settings) == [type |-> "Settings", settings |-> settings]

EnqueuedContent(update_id, update_type) ==
    [update_id |-> update_id, update_type |-> update_type, enqueued_at |-> 100]

ProcessedContent(update_id, update_type, duration, error) ==
    [update_id |-> update_id, update_type |-> update_type, enqueued_at |-> 100,
     processed_at |-> 110, duration |-> duration,
     error |-> error,
     error_code |-> IF error.some THEN Some("internal") ELSE None,
     error_type |-> IF error.some THEN Some("internal_error") ELSE None,
     error_link |-> None]

\* Tasks of the plain kinds vary in status, id, timing and error fields;
\* settings updates vary in status and settings.
UpdateStatuses ==
    {[status |-> "Enqueued", content |-> EnqueuedContent(id, ty)] :
        id \in {0, 1}, ty \in PlainUpdateTypes}
    \cup {[status |-> "Processed", content |-> ProcessedContent(id, ty, d, None)] :
            id \in {0, 1}, ty \in PlainUpdateTypes, d \in {0, 4}}
    \cup {[status |-> "Failed", content |-> ProcessedContent(id, ty, d, e)] :
            id \in {0, 1}, ty \in PlainUpdateTypes, d \in {0, 4},
            e \in {None, Some("boom")}}
    \cup {[status |-> "Enqueued", content |-> EnqueuedContent(7, SettingsType(su))] :
            su \in ShortSettingsUpdates}
    \cup {[status |-> st, content |-> ProcessedContent(7, SettingsType(su), 4, None)] :
            st \in {"Processed", "Failed"}, su \in ShortSettingsUpdates}
    \cup {[status |-> "Processed", content |-> ProcessedContent(7, SettingsType(su), 4, None)] :
            su \in LongSettingsUpdates}

TranslatorInputs ==
    {[call |-> "update_status", source |-> us] : us \in UpdateStatuses}
    \cup {[call |-> "settings", index |-> IndexNames[1], source |-> settings] :
            settings \in V1Settings}

InitTranslate ==
    /\ input \in TranslatorInputs
    /\ output = NoOutput
    /\ log = <<>>
    /\ from = [indexes_err |-> FALSE, indexes |-> <<>>]
    /\ mode = "idle"
    /\ uuids = None
    /\ prevUuids = None
    /\ cursor = Start
    /\ finished = FALSE
    /\ yielded = <<>>
    /\ origin = <<>>
    /\ last = "none"

\* Option::<v2::updates::UpdateStatus>::from(task)
TranslateUpdateStatus ==
    /\ input.call = "update_status"
    /\ ~output.done
    /\ \E r \in {FromUpdateStatus(input.source)} :
           /\ output' = [done |-> TRUE, ret |-> r.result]
           /\ log' = log \o r.log
    /\ UNCHANGED <<from, mode, uuids, prevUuids, cursor, finished, yielded,
                   origin, last, input>>

\* v2::settings::Settings::<Unchecked>::from(self.from.settings()?) in
\* CompatIndexV1ToV2::settings, for the index named input.index
TranslateSettings ==
    /\ input.call = "settings"
    /\ ~output.done
    /\ \E r \in {FromSettings(input.source)} :
           /\ output' = [done |-> TRUE, ret |-> r.result]
           /\ log' = log \o r.log
    /\ UNCHANGED <<from, mode, uuids, prevUuids, cursor, finished, yielded,
                   origin, last, input>>

NextTranslate ==
    \/ TranslateUpdateStatus
    \/ TranslateSettings

SpecTranslate == InitTranslate /\ [][NextTranslate]_vars

(***************************************************************************)
(* Vocabulary of the properties: the source as the claims speak of it.     *)
(***************************************************************************)
NumIndexes == Len(from.indexes)

\* the source positions <<index, task>> of all task records of the dump
Positions ==
    UNION {{<<i, j>> : j \in 1..Len(from.indexes[i].tasks)} : i \in 1..NumIndexes}

SourceTask(p) == from.indexes[p[1]].tasks[p[2]]

IsEnqueued(p) == SourceTask(p).ok /\ SourceTask(p).v.status = "Enqueued"
IsTerminal(p) == SourceTask(p).ok /\ SourceTask(p).v.status \in {"Processed", "Failed"}
IsCustoms(p) == SourceTask(p).ok /\ SourceTask(p).v.content.update_type.type = "Customs"

\* every index opens and every task record reads without error
AllReadable ==
    /\ ~from.indexes_err
    /\ \A i \in 1..NumIndexes : from.indexes[i].opens
    /\ \A p \in Positions : SourceTask(p).ok

TasksRanToEnd == last = "tasks" /\ finished

\* p comes before q in the listing: an earlier index, or the same index and
\* an earlier record
Before(p, q) == p[1] < q[1] \/ (p[1] = q[1] /\ p[2] < q[2])

\* the iterator has already read the record at p
Consumed(p) == p[1] < cursor.index \/ (p[1] = cursor.index /\ p[2] <= cursor.task)

\* C1 (as stated): after a complete tasks() run over a dump that reads without
\* error, the number of items equals the number of Processed or Failed source
\* tasks, whatever their update kinds.
C1_CountAllTerminal ==
    (TasksRanToEnd /\ AllReadable)
        => Len(yielded) = Cardinality({p \in Positions : IsTerminal(p)})

\* C1 (amended): after a complete tasks() run over a dump that reads without
\* error, the number of items equals the number of Processed or Failed source
\* tasks whose update kind is not Customs.
C1_CountTerminalNotCustoms ==
    (TasksRanToEnd /\ AllReadable)
        => Len(yielded) = Cardinality({p \in Positions : IsTerminal(p) /\ ~IsCustoms(p)})

C1_Witness ==
    /\ TasksRanToEnd
    /\ AllReadable
    /\ \E p \in Positions : IsTerminal(p) /\ IsCustoms(p)
    /\ \E p \in Positions : IsTerminal(p) /\ ~IsCustoms(p)
    /\ Len(yielded) = 1

\* C2: no yielded task comes from an Enqueued source task or from a task of the
\* Customs kind; and every other record the iterator has read (a task that is
\* neither, or a record that failed to read) has its own item, equal to the
\* translation of that record alone.
C2_DroppedTasksYieldNothing ==
    last = "tasks" =>
        /\ \A k \in 1..Len(yielded) :
              yielded[k].ok =>
                  /\ origin[k] \in Positions
                  /\ ~IsEnqueued(origin[k])
                  /\ ~IsCustoms(origin[k])
        /\ \A p \in Positions :
              (Consumed(p) /\ ~IsEnqueued(p) /\ ~IsCustoms(p)) =>
                  \E k \in 1..Len(yielded) :
                      /\ origin[k] = p
                      /\ yielded[k] =
                            IF SourceTask(p).ok
                            THEN Ok(<<[uuid |-> UuidFromU128(p[1] - 1),
                                       update |-> FromUpdateStatus(SourceTask(p).v).result.v],
                                      None>>)
                            ELSE Err(SourceTask(p).err)

C2_Witness ==
    /\ TasksRanToEnd
    /\ \E p \in Positions, q \in Positions :
          /\ p[1] = q[1]
          /\ IsCustoms(p) /\ IsTerminal(p)
          /\ IsTerminal(q) /\ ~IsCustoms(q)
    /\ Len(yielded) = 1
    /\ yielded[1].ok

\* C3: every yielded task carries the uuid that index_uuid() returned for the
\* index it was read from, also for an index listed after one that failed to
\* open.
C3_TaskUuidIsIndexUuid ==
    (last = "tasks" /\ uuids.some) =>
        \A k \in 1..Len(yielded) :
            yielded[k].ok => yielded[k].v[1].uuid = uuids.v[origin[k][1]].uuid

C3_Witness ==
    /\ last = "tasks"
    /\ uuids.some
    /\ NumIndexes >= 2
    /\ ~from.indexes[1].opens
    /\ \E k \in 1..Len(yielded) : yielded[k].ok /\ origin[k][1] = 2

\* the number a uuid's 16 bytes encode, most significant byte first
RECURSIVE U128Of(_)
U128Of(bytes) ==
    IF bytes = <<>> THEN 0
    ELSE 256 * U128Of(SubSeq(bytes, 1, Len(bytes) - 1)) + bytes[Len(bytes)]

\* C4: index_uuid() returns one entry per listed index, in listing order, the
\* k-th keeping the uid of the k-th index and carrying the 16-byte encoding of
\* its 0-based position; the uuids are pairwise distinct; a second call returns
\* the same sequence as the first.
C4_IndexUuidByPosition ==
    uuids.some =>
        /\ Len(uuids.v) = NumIndexes
        /\ \A k \in 1..NumIndexes :
              /\ uuids.v[k].uid = from.indexes[k].uid
              /\ Len(uuids.v[k].uuid) = 16
              /\ \A b \in 1..16 : uuids.v[k].uuid[b] \in 0..255
              /\ U128Of(uuids.v[k].uuid) = k - 1
        /\ \A k \in 1..NumIndexes, m \in 1..NumIndexes :
              k # m => uuids.v[k].uuid # uuids.v[m].uuid
        /\ prevUuids.some => prevUuids = uuids

C4_Witness ==
    /\ uuids.some
    /\ prevUuids.some
    /\ Len(uuids.v) = 2
    /\ uuids.v[1].uid # IndexNames[1]

\* what tasks() yields for the index at listing position i
TranslatedLog(i) ==
    IF ~from.indexes[i].opens
    THEN <<Err(<<"cannot open index", from.indexes[i].uid>>)>>
    ELSE LET tasks == from.indexes[i].tasks
             kept == SelectSeq([j \in 1..Len(tasks) |-> <<i, j>>],
                               LAMBDA p : ~IsEnqueued(p) /\ ~IsCustoms(p))
         IN  [k \in 1..Len(kept) |->
                IF SourceTask(kept[k]).ok
                THEN Ok(<<[uuid |-> UuidFromU128(i - 1),
                           update |-> FromUpdateStatus(SourceTask(kept[k]).v).result.v],
                          None>>)
                ELSE Err(SourceTask(kept[k]).err)]

RECURSIVE ConcatLogs(_)
ConcatLogs(n) == IF n = 0 THEN <<>> ELSE ConcatLogs(n - 1) \o TranslatedLog(n)

\* the update_id a yielded task carries
UpdateIdOf(item) == item.v[1].update.from.from.update_id

\* C5: items come out in listing order (an item of an earlier index before an
\* item of a later one, two items of one index in the order of their source
\* records), each carrying the update id of its own source record, and a
\* complete run yields the concatenation of the per-index translated logs.
C5_TasksConcatenatedInListingOrder ==
    (last = "tasks" /\ ~from.indexes_err) =>
        /\ \A a \in 1..Len(origin), b \in 1..Len(origin) :
              a < b => Before(origin[a], origin[b])
        /\ \A k \in 1..Len(yielded) :
              yielded[k].ok =>
                  UpdateIdOf(yielded[k]) = SourceTask(origin[k]).v.content.update_id
        /\ finished => yielded = ConcatLogs(NumIndexes)

C5_Witness ==
    /\ TasksRanToEnd
    /\ Len(yielded) = 2
    /\ yielded[1].ok /\ yielded[2].ok
    /\ origin[1][1] = 1 /\ origin[2][1] = 2

\* C6: when the listing can be opened, indexes() yields one item per listed
\* index, in listing order; the item at position k is an error exactly when
\* index k failed to open, and otherwise wraps the reader of index k; the
\* enumeration ends only after the last index.
C6_IndexesYieldOnePerIndex ==
    last = "indexes" =>
        /\ Len(yielded) <= NumIndexes
        /\ finished => Len(yielded) = NumIndexes
        /\ \A k \in 1..Len(yielded) :
              /\ yielded[k].ok <=> from.indexes[k].opens
              /\ yielded[k].ok =>
                    yielded[k].v.from = [uid |-> from.indexes[k].uid,
                                         tasks |-> from.indexes[k].tasks]

C6_Witness ==
    /\ last = "indexes"
    /\ finished
    /\ Len(yielded) = 2
    /\ ~yielded[1].ok
    /\ yielded[2].ok

(***************************************************************************)
(* Properties of the translators.                                          *)
(***************************************************************************)
Translated == output.done

IsStatusInput == input.call = "update_status"
IsSettingsInput == input.call = "settings"

\* a settings-update task that is translated (its status is not Enqueued)
IsSettingsTask ==
    /\ IsStatusInput
    /\ input.source.status # "Enqueued"
    /\ input.source.content.update_type.type = "Settings"

SourceUpdate == input.source.content.update_type.settings
TargetUpdate == output.ret.v.from.from.meta.settings

WordsPosition == [rule |-> "WordsPosition"]

\* C7: in both settings translations the ranking rules that come out are the
\* source rules without the WordsPosition entries, in the source order, each
\* one the equivalent of the source rule at its place.
C7_RankingRulesFiltered ==
    Translated =>
        /\ (IsSettingsTask /\ SourceUpdate.ranking_rules.state = "Update") =>
              LET surviving == SelectSeq(SourceUpdate.ranking_rules.value,
                                         LAMBDA r : r # WordsPosition)
                  target == TargetUpdate.ranking_rules.v.v
              IN  /\ Len(target) = Len(surviving)
                  /\ \A k \in 1..Len(surviving) :
                        RankingRuleFromStr(target[k]) = Ok(surviving[k])
        /\ (IsSettingsInput /\ input.source.ranking_rules.some
                /\ input.source.ranking_rules.v.some) =>
              output.ret.ranking_rules.v.v =
                  SelectSeq(input.source.ranking_rules.v.v, LAMBDA r : r # "wordsPosition")

C7_Witness ==
    /\ Translated
    /\ IsSettingsTask
    /\ SourceUpdate.ranking_rules =
          Update(<<[rule |-> "Typo"], WordsPosition, [rule |-> "Desc", field |-> "price"]>>)
    /\ TargetUpdate.ranking_rules = Some(Some(<<"typo", "desc(price)">>))

\* the outcome the claim gives for each update kind
ClaimedOutcome(update_type) ==
    IF update_type.type = "ClearAll"
    THEN [result |-> "DocumentDeletion", deleted |-> U64_MAX]
    ELSE IF update_type.type \in {"DocumentsAddition", "DocumentsPartial"}
    THEN [result |-> "DocumentsAddition", nb_documents |-> update_type.number]
    ELSE IF update_type.type = "DocumentsDeletion"
    THEN [result |-> "DocumentDeletion", deleted |-> update_type.number]
    ELSE [result |-> "Other"]

IsProcessedInput == IsStatusInput /\ input.source.status = "Processed"

\* C8 (as stated): a Processed source task translates to a Processed target
\* status with the outcome of its update kind, Customs giving "other".
C8_ProcessedOutcomeAllKinds ==
    (Translated /\ IsProcessedInput) =>
        /\ output.ret.some
        /\ output.ret.v.status = "Processed"
        /\ output.ret.v.success = ClaimedOutcome(input.source.content.update_type)

\* C8 (amended): a Processed source task of any kind but Customs translates to
\* a Processed target status with the outcome of its update kind; a Processed
\* task of the Customs kind translates to nothing.
C8_ProcessedOutcomeUnlessCustoms ==
    (Translated /\ IsProcessedInput) =>
        IF input.source.content.update_type.type = "Customs"
        THEN output.ret = None
        ELSE /\ output.ret.some
             /\ output.ret.v.status = "Processed"
             /\ output.ret.v.success = ClaimedOutcome(input.source.content.update_type)

C8_Witness ==
    /\ Translated
    /\ IsProcessedInput
    /\ input.source.content.update_type.type = "ClearAll"
    /\ output.ret.some
    /\ output.ret.v.success.deleted = U64_MAX

\* the three markers of the target representation
NoChange(x) == ~x.some
PresentEmpty(x) == x.some /\ ~x.v.some
PresentWith(x, value) == x.some /\ x.v.some /\ x.v.v = value

TriStateKept(source, target, value) ==
    /\ source.state = "Nothing" <=> NoChange(target)
    /\ source.state = "Clear" <=> PresentEmpty(target)
    /\ source.state = "Update" <=> PresentWith(target, value)

\* C9: each field of a settings update keeps its state: Nothing gives the
\* no-change marker, Clear the present-but-empty marker, Update(v) the
\* present-with-value marker holding v (a Vec collected into a set for the
\* faceting attributes, the filtered rules for the ranking rules); an Update
\* of ranking rules that are all dropped is present with an empty list.
C9_TriStateKept ==
    (Translated /\ IsSettingsTask) =>
        /\ \A f \in {"searchable_attributes", "displayed_attributes", "stop_words",
                     "synonyms", "distinct_attribute"} :
              TriStateKept(SourceUpdate[f], TargetUpdate[f],
                           IF SourceUpdate[f].state = "Update"
                           THEN SourceUpdate[f].value ELSE <<>>)
        /\ TriStateKept(SourceUpdate.attributes_for_faceting,
                        TargetUpdate.filterable_attributes,
                        IF SourceUpdate.attributes_for_faceting.state = "Update"
                        THEN Range(SourceUpdate.attributes_for_faceting.value) ELSE {})
        /\ TriStateKept(SourceUpdate.ranking_rules, TargetUpdate.ranking_rules,
                        IF TargetUpdate.ranking_rules.some /\ TargetUpdate.ranking_rules.v.some
                        THEN TargetUpdate.ranking_rules.v.v ELSE <<>>)
        /\ (SourceUpdate.ranking_rules.state = "Update"
                /\ \A k \in 1..Len(SourceUpdate.ranking_rules.value) :
                      SourceUpdate.ranking_rules.value[k] = WordsPosition)
              => TargetUpdate.ranking_rules = Some(Some(<<>>))

C9_Witness ==
    /\ Translated
    /\ IsSettingsTask
    /\ SourceUpdate.ranking_rules = Update(<<WordsPosition, WordsPosition>>)
    /\ TargetUpdate.ranking_rules = Some(Some(<<>>))
    /\ SourceUpdate.searchable_attributes = Nothing
    /\ TargetUpdate.searchable_attributes = None
    /\ SourceUpdate.displayed_attributes = Clear
    /\ TargetUpdate.displayed_attributes = Some(None)
    /\ SourceUpdate.attributes_for_faceting = Update(<<"b", "a", "b">>)
    /\ TargetUpdate.filterable_attributes = Some(Some({"a", "b"}))
    /\ SourceUpdate.stop_words = Nothing
    /\ SourceUpdate.synonyms = Clear
    /\ SourceUpdate.distinct_attribute = Update("id")
    /\ TargetUpdate.distinct_attribute = Some(Some("id"))

\* the warnings of the log that interpolate value x
Naming(x) == {k \in 1..Len(log) : \E a \in 1..Len(log[k].args) : log[k].args[a] = x}

\* the number of entries of seq that equal x
Count(seq, x) == Cardinality({k \in 1..Len(seq) : seq[k] = x})

IsDroppedEnqueued == IsStatusInput /\ input.source.status = "Enqueued"
IsDroppedCustoms ==
    /\ IsStatusInput
    /\ input.source.status # "Enqueued"
    /\ input.source.content.update_type.type = "Customs"

\* the WordsPosition entries the translation meets
DroppedRules ==
    IF IsSettingsInput
    THEN IF input.source.ranking_rules.some /\ input.source.ranking_rules.v.some
         THEN Count(input.source.ranking_rules.v.v, "wordsPosition") ELSE 0
    ELSE IF IsSettingsTask /\ SourceUpdate.ranking_rules.state = "Update"
    THEN Count(SourceUpdate.ranking_rules.value, WordsPosition)
    ELSE 0

\* C10 (as stated): every dropped record has a warning that identifies it: the
\* task id for a dropped task (Enqueued or Customs), the index name for a
\* dropped ranking rule.
C10_WarningsIdentifyRecord ==
    Translated =>
        /\ (IsDroppedEnqueued \/ IsDroppedCustoms)
              => Naming(input.source.content.update_id) # {}
        /\ (IsSettingsInput /\ DroppedRules > 0) => Naming(input.index) # {}

\* C10 (amended): every dropped record has a warning: a dropped Enqueued task
\* one that names its task id; a dropped Customs task and each dropped
\* WordsPosition rule a fixed text that names nothing.  The result does not
\* depend on it: the dropped tasks translate to nothing, the other rules stay.
C10_DropsAreWarned ==
    Translated =>
        /\ IsDroppedEnqueued =>
              /\ Naming(input.source.content.update_id) # {}
              /\ output.ret = None
        /\ IsDroppedCustoms =>
              /\ log = WarnCustoms
              /\ \A k \in 1..Len(log) : log[k].args = <<>>
              /\ output.ret = None
        /\ (IsSettingsInput \/ IsSettingsTask) =>
              /\ Len(log) = DroppedRules
              /\ \A k \in 1..Len(log) : <<log[k]>> = WarnWordsPosition /\ log[k].args = <<>>

C10_Witness ==
    /\ Translated
    /\ IsDroppedCustoms
    /\ input.source.status = "Failed"
    /\ log = WarnCustoms
    /\ Naming(input.source.content.update_id) = {}

====
